---- MODULE Spec2Model ----
(***************************************************************************)
(* Model of resources/zmk_defines.h: the four #define directives of the    *)
(* header and the preprocessor steps that give them meaning (recording a   *)
(* definition, replacing an object-like macro, collecting the arguments    *)
(* of a function-like macro invocation, substituting the parameters and    *)
(* __VA_ARGS__ into the replacement list, and rescanning the result).      *)
(* Text is a sequence of preprocessing tokens; a token is a string.        *)
(* The header is read the way devicetree sources are preprocessed, where   *)
(* a '#' in a replacement list that is not followed by a parameter is an   *)
(* ordinary token ("#binding-cells").                                      *)
(***************************************************************************)
EXTENDS Naturals, Sequences, FiniteSets

\* macros: the macro table; last: the input just preprocessed and its result,
\* not yet written out; prev: the kind of the result written out before it;
\* ref: an earlier result kept for comparison (history only).
VARIABLES macros, last, prev, ref

vars == <<macros, last, prev, ref>>

\* Longest variadic text (in tokens, commas included) of an invocation, and
\* longest plain text scanned.
MaxVaLen == 3

\* Tokens a caller may write after the name: an ordinary identifier, the
\* object-like macro of the header, the name of a function-like macro of the
\* header, and the comma that separates arguments.
VaTokens == {"x", "MACRO_PLACEHOLDER", "ZMK_MACRO2", ","}

\* Names a caller may give a node: an ordinary identifier, the object-like
\* macro of the header, and the name of a function-like macro of the header.
Names == {"m", "MACRO_PLACEHOLDER", "ZMK_MACRO1"}

SeqsUpTo(S, n) == UNION {[1..k -> S] : k \in 0..n}

VaTexts == SeqsUpTo(VaTokens, MaxVaLen)

\* Longest variadic text where two results of a run are compared.
MaxPairLen == 1

PairTexts == SeqsUpTo(VaTokens, MaxPairLen)

----------------------------------------------------------------------------
(* The header's directives.                                                *)

\* #define MACRO_PLACEHOLDER 0
Def_MACRO_PLACEHOLDER ==
  [name |-> "MACRO_PLACEHOLDER", fn |-> FALSE, params |-> <<>>,
   variadic |-> FALSE, body |-> <<"0">>]

\* Variant: ZMK_MACRO carrying the compatible string of ZMK_MACRO1.
Def_ZMK_MACRO_OneParamString ==
  [name |-> "ZMK_MACRO", fn |-> TRUE, params |-> <<"name">>,
   variadic |-> TRUE,
   body |-> <<"name", ":", "name", "{",
              "compatible", "=", "\"zmk,behavior-macro-one-param\"", ";",
              "#", "binding", "-", "cells", "=", "<", "0", ">", ";",
              "__VA_ARGS__", "}", ";">>]

\* #define ZMK_MACRO(name,...) name: name { compatible = "zmk,behavior-macro";
\*                             #binding-cells = <0>; __VA_ARGS__ };
Def_ZMK_MACRO ==
  [name |-> "ZMK_MACRO", fn |-> TRUE, params |-> <<"name">>,
   variadic |-> TRUE,
   body |-> <<"name", ":", "name", "{",
              "compatible", "=", "\"zmk,behavior-macro\"", ";",
              "#", "binding", "-", "cells", "=", "<", "0", ">", ";",
              "__VA_ARGS__", "}", ";">>]

\* Variant: ZMK_MACRO1 still declaring <0> binding cells.
Def_ZMK_MACRO1_ZeroCells ==
  [name |-> "ZMK_MACRO1", fn |-> TRUE, params |-> <<"name">>,
   variadic |-> TRUE,
   body |-> <<"name", ":", "name", "{",
              "compatible", "=", "\"zmk,behavior-macro-one-param\"", ";",
              "#", "binding", "-", "cells", "=", "<", "0", ">", ";",
              "__VA_ARGS__", "}", ";">>]

\* Variant: ZMK_MACRO1 placing the caller's text before its own properties.
Def_ZMK_MACRO1_BodyFirst ==
  [name |-> "ZMK_MACRO1", fn |-> TRUE, params |-> <<"name">>,
   variadic |-> TRUE,
   body |-> <<"name", ":", "name", "{",
              "__VA_ARGS__",
              "compatible", "=", "\"zmk,behavior-macro-one-param\"", ";",
              "#", "binding", "-", "cells", "=", "<", "1", ">", ";",
              "}", ";">>]

\* #define ZMK_MACRO1(name,...) ... "zmk,behavior-macro-one-param" ... <1>
Def_ZMK_MACRO1 ==
  [name |-> "ZMK_MACRO1", fn |-> TRUE, params |-> <<"name">>,
   variadic |-> TRUE,
   body |-> <<"name", ":", "name", "{",
              "compatible", "=", "\"zmk,behavior-macro-one-param\"", ";",
              "#", "binding", "-", "cells", "=", "<", "1", ">", ";",
              "__VA_ARGS__", "}", ";">>]

\* Variant: ZMK_MACRO2 carrying the compatible string of ZMK_MACRO1.
Def_ZMK_MACRO2_OneParamString ==
  [name |-> "ZMK_MACRO2", fn |-> TRUE, params |-> <<"name">>,
   variadic |-> TRUE,
   body |-> <<"name", ":", "name", "{",
              "compatible", "=", "\"zmk,behavior-macro-one-param\"", ";",
              "#", "binding", "-", "cells", "=", "<", "2", ">", ";",
              "__VA_ARGS__", "}", ";">>]

\* Variant: ZMK_MACRO2 still declaring <1> binding cells.
Def_ZMK_MACRO2_OneCell ==
  [name |-> "ZMK_MACRO2", fn |-> TRUE, params |-> <<"name">>,
   variadic |-> TRUE,
   body |-> <<"name", ":", "name", "{",
              "compatible", "=", "\"zmk,behavior-macro-two-param\"", ";",
              "#", "binding", "-", "cells", "=", "<", "1", ">", ";",
              "__VA_ARGS__", "}", ";">>]

\* #define ZMK_MACRO2(name,...) ... "zmk,behavior-macro-two-param" ... <2>
Def_ZMK_MACRO2 ==
  [name |-> "ZMK_MACRO2", fn |-> TRUE, params |-> <<"name">>,
   variadic |-> TRUE,
   body |-> <<"name", ":", "name", "{",
              "compatible", "=", "\"zmk,behavior-macro-two-param\"", ";",
              "#", "binding", "-", "cells", "=", "<", "2", ">", ";",
              "__VA_ARGS__", "}", ";">>]

\* Variant: the header without its first directive.
HeaderDirectives_NoPlaceholder ==
  <<Def_ZMK_MACRO, Def_ZMK_MACRO1, Def_ZMK_MACRO2>>

\* The directives of the header, in file order.
HeaderDirectives ==
  <<Def_MACRO_PLACEHOLDER, Def_ZMK_MACRO, Def_ZMK_MACRO1, Def_ZMK_MACRO2>>

----------------------------------------------------------------------------
(* The preprocessor over a macro table ms (a set of definitions).          *)

DefinedNames(ms) == {d.name : d \in ms}

Lookup(ms, t) == CHOOSE d \in ms : d.name = t

IsObjectLike(ms, t) == \E d \in ms : d.name = t /\ ~d.fn

IsFunctionLike(ms, t) == \E d \in ms : d.name = t /\ d.fn

\* #define: a definition replaces any earlier definition of the same name.
Define(ms, d) == {e \in ms : e.name # d.name} \cup {d}

RECURSIVE DefineAll(_, _)
DefineAll(ms, ds) ==
  IF ds = <<>> THEN ms ELSE DefineAll(Define(ms, Head(ds)), Tail(ds))

\* Variant: only the first token of the text is looked up.
ExpandTokens_HeadOnly(ms, toks, hide) ==
  IF toks = <<>> THEN <<>>
  ELSE IF Head(toks) \notin hide /\ IsObjectLike(ms, Head(toks))
  THEN Lookup(ms, Head(toks)).body \o Tail(toks)
  ELSE toks

\* Scanning text that holds no parenthesised invocation: an object-like macro
\* is replaced by its replacement list, which is rescanned with that macro no
\* longer available; the name of a function-like macro that is not followed
\* by "(" is left alone, like every other token.
RECURSIVE ExpandTokens(_, _, _)
ExpandTokens(ms, toks, hide) ==
  IF toks = <<>> THEN <<>>
  ELSE LET t == Head(toks)
           first == IF t \notin hide /\ IsObjectLike(ms, t)
                    THEN ExpandTokens(ms, Lookup(ms, t).body, hide \cup {t})
                    ELSE <<t>>
       IN first \o ExpandTokens(ms, Tail(toks), hide)

\* The text between the parentheses of an invocation, cut at its commas.
FirstComma(toks) ==
  IF \E i \in 1..Len(toks) : toks[i] = ","
  THEN CHOOSE i \in 1..Len(toks) :
         toks[i] = "," /\ \A j \in 1..(i - 1) : toks[j] # ","
  ELSE 0

RECURSIVE SplitArgs(_)
SplitArgs(toks) ==
  IF FirstComma(toks) = 0 THEN <<toks>>
  ELSE <<SubSeq(toks, 1, FirstComma(toks) - 1)>>
         \o SplitArgs(SubSeq(toks, FirstComma(toks) + 1, Len(toks)))

RECURSIVE JoinArgs(_)
JoinArgs(args) ==
  IF args = <<>> THEN <<>>
  ELSE IF Len(args) = 1 THEN args[1]
  ELSE args[1] \o <<",">> \o JoinArgs(Tail(args))

\* Variant: the variadic tail is not gathered into one argument.
CollectArgs_NoGather(def, toks) == SplitArgs(toks)

\* Argument collection: a variadic macro takes everything after its named
\* parameters, commas included, as the one argument __VA_ARGS__.
CollectArgs(def, toks) ==
  LET parts == SplitArgs(toks)
      k == Len(def.params)
  IN IF def.variadic /\ Len(parts) > k
     THEN SubSeq(parts, 1, k) \o <<JoinArgs(SubSeq(parts, k + 1, Len(parts)))>>
     ELSE parts

\* Variant: "..." demands at least one variadic argument.
ArgsAccepted_Strict(def, n) ==
  IF def.variadic
  THEN n = Len(def.params) + 1
  ELSE n = Len(def.params)

\* The number of arguments a macro accepts: exactly its parameters, or, with
\* "...", its parameters with or without a variadic argument.
ArgsAccepted(def, n) ==
  IF def.variadic
  THEN n = Len(def.params) \/ n = Len(def.params) + 1
  ELSE n = Len(def.params)

\* One token of the replacement list: a parameter is replaced by its argument,
\* fully macro-expanded first; __VA_ARGS__ by the variadic argument, likewise
\* (by nothing when none was given); any other token stands for itself.
SubstToken(def, args, ms, t) ==
  LET k == Len(def.params)
  IN IF \E i \in 1..k : def.params[i] = t
     THEN ExpandTokens(ms, args[CHOOSE i \in 1..k : def.params[i] = t], {})
     ELSE IF def.variadic /\ t = "__VA_ARGS__"
     THEN IF Len(args) > k THEN ExpandTokens(ms, args[k + 1], {}) ELSE <<>>
     ELSE <<t>>

RECURSIVE SubstBody(_, _, _, _)
SubstBody(def, args, ms, body) ==
  IF body = <<>> THEN <<>>
  ELSE SubstToken(def, args, ms, Head(body))
         \o SubstBody(def, args, ms, Tail(body))

Substitute(def, args, ms) == SubstBody(def, args, ms, def.body)

\* Variant: the definition used is the one of the macro expanded before.
InvokeMacro_Sticky(ms, mname, text) ==
  LET def == IF IsFunctionLike(ms, prev) THEN Lookup(ms, prev)
             ELSE Lookup(ms, mname)
      args == CollectArgs(def, text)
  IN IF ~ArgsAccepted(def, Len(args))
     THEN [ok |-> FALSE, toks |-> <<>>]
     ELSE [ok |-> TRUE,
           toks |-> ExpandTokens(ms, Substitute(def, args, ms), {mname})]

\* mname ( text ): collect the arguments, substitute them into the
\* replacement list, rescan the result with mname no longer available.
InvokeMacro(ms, mname, text) ==
  LET def == Lookup(ms, mname)
      args == CollectArgs(def, text)
  IN IF ~ArgsAccepted(def, Len(args))
     THEN [ok |-> FALSE, toks |-> <<>>]
     ELSE [ok |-> TRUE,
           toks |-> ExpandTokens(ms, Substitute(def, args, ms), {mname})]

\* What a caller writes between the parentheses: the name, then, if a comma
\* follows it, the variadic text.
ArgText(name, comma, va) ==
  IF comma THEN <<name, ",">> \o va ELSE <<name>>

----------------------------------------------------------------------------
(* The state machine: a translation unit being preprocessed.               *)

MacroKinds == {"ZMK_MACRO", "ZMK_MACRO1", "ZMK_MACRO2"}

NoResult ==
  [kind |-> "none", name |-> "", comma |-> FALSE, va |-> <<>>,
   ok |-> TRUE, toks |-> <<>>]

Idle == last.kind = "none"

Init ==
  /\ macros = {}
  /\ last = NoResult
  /\ prev = "none"
  /\ ref = NoResult

\* #include "zmk_defines.h": every directive of the header is processed.
Include ==
  /\ Idle
  /\ macros' = DefineAll(macros, HeaderDirectives)
  /\ UNCHANGED <<last, prev, ref>>

\* A stretch of plain text goes through the preprocessor.
Scan ==
  /\ Idle
  /\ \E text \in VaTexts :
       last' = [kind |-> "text", name |-> "", comma |-> FALSE, va |-> text,
                ok |-> TRUE, toks |-> ExpandTokens(macros, text, {})]
  /\ UNCHANGED <<macros, prev, ref>>

\* mname(name) or mname(name, va) goes through the preprocessor; before the
\* header is included mname is no macro and there is nothing to expand.
Invoke(mname, texts) ==
  /\ Idle
  /\ IsFunctionLike(macros, mname)
  /\ \E name \in Names, comma \in BOOLEAN, va \in texts :
       /\ comma \/ va = <<>>
       /\ LET r == InvokeMacro(macros, mname, ArgText(name, comma, va))
          IN last' = [kind |-> mname, name |-> name, comma |-> comma,
                      va |-> va, ok |-> r.ok, toks |-> r.toks]
  /\ UNCHANGED <<macros, prev, ref>>

InvokeZMK_MACRO == Invoke("ZMK_MACRO", VaTexts)

InvokeZMK_MACRO1 == Invoke("ZMK_MACRO1", VaTexts)

InvokeZMK_MACRO2 == Invoke("ZMK_MACRO2", VaTexts)

\* The result is written to the output and the preprocessor moves on to the
\* text that follows.
Emit ==
  /\ ~Idle
  /\ prev' = last.kind
  /\ last' = NoResult
  /\ UNCHANGED <<macros, ref>>

Next ==
  \/ Include
  \/ Scan
  \/ InvokeZMK_MACRO
  \/ InvokeZMK_MACRO1
  \/ InvokeZMK_MACRO2
  \/ Emit

Spec == Init /\ [][Next]_vars

\* The same translation unit with one earlier result remembered: any result
\* may be the one kept when it is written out.
PairZMK_MACRO == Invoke("ZMK_MACRO", PairTexts)

PairZMK_MACRO1 == Invoke("ZMK_MACRO1", PairTexts)

PairZMK_MACRO2 == Invoke("ZMK_MACRO2", PairTexts)

EmitKept ==
  /\ ~Idle
  /\ prev' = last.kind
  /\ ref' = last
  /\ last' = NoResult
  /\ UNCHANGED macros

NextPair ==
  \/ Include
  \/ PairZMK_MACRO
  \/ PairZMK_MACRO1
  \/ PairZMK_MACRO2
  \/ Emit
  \/ EmitKept

SpecPair == Init /\ [][NextPair]_vars

----------------------------------------------------------------------------
(* Reading a fragment.  With a one-token name the text in front of the     *)
(* caller's body is 17 tokens long and the text after it 2 tokens long:    *)
(*   name : name { compatible = "..." ; # binding - cells = < n > ;  } ;   *)

HeaderIncluded == macros # {}

Expanded(kinds) == last.kind \in kinds

Label(f) == f[1]

NodeName(f) == f[3]

CompatibleOf(f) == f[7]

BindingCellsOf(f) == f[15]

BodyOf(f) == SubSeq(f, 18, Len(f) - 2)

TemplateOf(f) == SubSeq(f, 1, 17) \o SubSeq(f, Len(f) - 1, Len(f))

Occurrences(f, t) == Cardinality({i \in 1..Len(f) : f[i] = t})

\* A token with MACRO_PLACEHOLDER replaced by 0, and a text so treated.
ZeroedToken(t) == IF t = "MACRO_PLACEHOLDER" THEN "0" ELSE t

Zeroed(text) == [i \in 1..Len(text) |-> ZeroedToken(text[i])]

\* The fixed punctuation and property names of a node, in their places.
NodeShape(f) ==
  /\ Len(f) >= 19
  /\ f[2] = ":" /\ f[4] = "{"
  /\ f[5] = "compatible" /\ f[6] = "=" /\ f[8] = ";"
  /\ f[9] = "#" /\ f[10] = "binding" /\ f[11] = "-" /\ f[12] = "cells"
  /\ f[13] = "=" /\ f[14] = "<" /\ f[16] = ">" /\ f[17] = ";"
  /\ f[Len(f) - 1] = "}" /\ f[Len(f)] = ";"

NodeWith(f, label, compatible, cells, text) ==
  /\ NodeShape(f)
  /\ Label(f) = label /\ NodeName(f) = label
  /\ CompatibleOf(f) = compatible /\ BindingCellsOf(f) = cells
  /\ BodyOf(f) = text

\* The parameter count a compatible string names.
ParamCountNamed(compatible) ==
  IF compatible = "\"zmk,behavior-macro\"" THEN "0"
  ELSE IF compatible = "\"zmk,behavior-macro-one-param\"" THEN "1"
  ELSE IF compatible = "\"zmk,behavior-macro-two-param\"" THEN "2"
  ELSE "unknown"

SameInvocation(a, b) ==
  /\ a.kind = b.kind /\ a.name = b.name
  /\ a.comma = b.comma /\ a.va = b.va

----------------------------------------------------------------------------
\* C1 (as amended): expanding ZMK_MACRO(name, ...) yields a node whose label
\* and node name both equal the given name after macro expansion (the name
\* itself, or 0 when the name is MACRO_PLACEHOLDER), whose compatible is
\* "zmk,behavior-macro" and whose #binding-cells is <0>, followed by the
\* macro-expanded variadic arguments inside the node body.
C1_ZmkMacroNode ==
  Expanded({"ZMK_MACRO"}) =>
    /\ last.ok
    /\ NodeWith(last.toks, ZeroedToken(last.name), "\"zmk,behavior-macro\"",
                "0", Zeroed(last.va))

C1_Witness ==
  /\ Expanded({"ZMK_MACRO"}) /\ last.ok
  /\ last.name = "m" /\ Label(last.toks) = "m"
  /\ Len(last.va) = MaxVaLen

\* C1 as stated: for every name the label and node name equal the given name.
C1_AsStated ==
  Expanded({"ZMK_MACRO"}) =>
    /\ last.ok
    /\ NodeWith(last.toks, last.name, "\"zmk,behavior-macro\"",
                "0", Zeroed(last.va))

\* C2 (as amended): expanding ZMK_MACRO1(name, ...) yields a node whose label
\* and node name both equal the given name after macro expansion (0 for
\* MACRO_PLACEHOLDER), whose compatible is "zmk,behavior-macro-one-param" and
\* whose #binding-cells is <1>, followed by the macro-expanded variadic
\* arguments inside the node body.
C2_ZmkMacro1Node ==
  Expanded({"ZMK_MACRO1"}) =>
    /\ last.ok
    /\ NodeWith(last.toks, ZeroedToken(last.name),
                "\"zmk,behavior-macro-one-param\"", "1", Zeroed(last.va))

C2_Witness ==
  /\ Expanded({"ZMK_MACRO1"}) /\ last.ok
  /\ last.name = "m" /\ NodeName(last.toks) = "m"
  /\ BindingCellsOf(last.toks) = "1"
  /\ Len(last.va) = MaxVaLen

\* C2 as stated: for every name the label and node name equal the given name.
C2_AsStated ==
  Expanded({"ZMK_MACRO1"}) =>
    /\ last.ok
    /\ NodeWith(last.toks, last.name,
                "\"zmk,behavior-macro-one-param\"", "1", Zeroed(last.va))

\* C3 (as amended): expanding ZMK_MACRO2(name, ...) yields a node whose label
\* and node name both equal the given name after macro expansion (0 for
\* MACRO_PLACEHOLDER), whose compatible is "zmk,behavior-macro-two-param" and
\* whose #binding-cells is <2>, followed by the macro-expanded variadic
\* arguments inside the node body.
C3_ZmkMacro2Node ==
  Expanded({"ZMK_MACRO2"}) =>
    /\ last.ok
    /\ NodeWith(last.toks, ZeroedToken(last.name),
                "\"zmk,behavior-macro-two-param\"", "2", Zeroed(last.va))

C3_Witness ==
  /\ Expanded({"ZMK_MACRO2"}) /\ last.ok
  /\ last.name = "ZMK_MACRO1" /\ Label(last.toks) = "ZMK_MACRO1"
  /\ BindingCellsOf(last.toks) = "2"
  /\ Len(last.va) = MaxVaLen

\* C3 as stated: for every name the label and node name equal the given name.
C3_AsStated ==
  Expanded({"ZMK_MACRO2"}) =>
    /\ last.ok
    /\ NodeWith(last.toks, last.name,
                "\"zmk,behavior-macro-two-param\"", "2", Zeroed(last.va))

\* C4 (as amended): for each of the three macros and every variadic text, the
\* body of the node holds the supplied tokens in the order supplied, none
\* dropped, duplicated or reordered, and none replaced except that every
\* MACRO_PLACEHOLDER token appears as 0; commas, ordinary tokens and the bare
\* names of the header's function-like macros are unmodified.
C4_BodyKeepsVariadicText ==
  Expanded(MacroKinds) =>
    /\ last.ok
    /\ Len(BodyOf(last.toks)) = Len(last.va)
    /\ \A i \in 1..Len(last.va) :
         IF last.va[i] = "MACRO_PLACEHOLDER"
         THEN BodyOf(last.toks)[i] = "0"
         ELSE BodyOf(last.toks)[i] = last.va[i]

C4_Witness ==
  /\ Expanded(MacroKinds) /\ last.ok
  /\ Len(last.va) >= 3
  /\ last.va[1] = "x" /\ last.va[2] = "," /\ last.va[3] = "MACRO_PLACEHOLDER"
  /\ BodyOf(last.toks)[1] = "x" /\ BodyOf(last.toks)[3] = "0"

\* C4 as stated: the body holds the supplied variadic text unmodified, also
\* when it holds tokens that are names defined in the header.
C4_AsStated ==
  Expanded(MacroKinds) => BodyOf(last.toks) = last.va

\* C5: an invocation of ZMK_MACRO, ZMK_MACRO1 or ZMK_MACRO2 that supplies a
\* name never ends in an error: with any variadic text, an empty one
\* included (with or without the comma), it produces a node fragment.
C5_ExpansionNeverFails ==
  Expanded(MacroKinds) => last.ok /\ NodeShape(last.toks)

C5_Witness ==
  /\ Expanded(MacroKinds) /\ ~last.comma /\ last.va = <<>>
  /\ last.ok /\ Len(last.toks) = 19

C7_HeaderSurface ==
  HeaderIncluded =>
    /\ DefinedNames(macros) =
         {"MACRO_PLACEHOLDER", "ZMK_MACRO", "ZMK_MACRO1", "ZMK_MACRO2"}
    /\ Expanded({"text"}) =>
         /\ Len(last.toks) = Len(last.va)
         /\ \A i \in 1..Len(last.va) :
              last.va[i] # "MACRO_PLACEHOLDER" => last.toks[i] = last.va[i]

C7_Witness ==
  /\ HeaderIncluded /\ Expanded({"text"})
  /\ \E i, j \in 1..Len(last.va) :
       /\ last.va[i] = "x" /\ last.toks[i] = "x"
       /\ last.va[j] = "ZMK_MACRO2" /\ last.toks[j] = "ZMK_MACRO2"

\* C7 as stated: the header defines ZMK_MACRO, ZMK_MACRO1 and ZMK_MACRO2 and
\* nothing else, and including it rewrites no other identifier.
C7_AsStated ==
  HeaderIncluded =>
    /\ DefinedNames(macros) = {"ZMK_MACRO", "ZMK_MACRO1", "ZMK_MACRO2"}
    /\ Expanded({"text"}) => last.toks = last.va

\* C8: the expansions of ZMK_MACRO1 and of ZMK_MACRO2 are the expansion of
\* ZMK_MACRO with the same arguments except for the compatible string and
\* the #binding-cells value, and in every fragment the #binding-cells value
\* is the parameter count the compatible string names.
C8_SameTemplateMatchingArity ==
  Expanded(MacroKinds) =>
    LET base == InvokeMacro(macros, "ZMK_MACRO",
                            ArgText(last.name, last.comma, last.va))
    IN /\ last.ok = base.ok
       /\ Len(last.toks) = Len(base.toks)
       /\ \A i \in 1..Len(last.toks) :
            i \notin {7, 15} => last.toks[i] = base.toks[i]
       /\ BindingCellsOf(last.toks) = ParamCountNamed(CompatibleOf(last.toks))

C8_Witness ==
  /\ Expanded({"ZMK_MACRO2"}) /\ last.ok
  /\ last.va # <<>>
  /\ CompatibleOf(last.toks) = "\"zmk,behavior-macro-two-param\""
  /\ BindingCellsOf(last.toks) = "2"

\* C9: every invocation emits exactly one node in a fixed order: label and
\* node name, opening brace, the compatible property, the #binding-cells
\* property, the variadic body, the closing "};"; outside the caller's body
\* the braces, compatible and #binding-cells each occur exactly once, and
\* both properties stand before the body.
C9_OneNodeFixedOrder ==
  Expanded(MacroKinds) =>
    /\ NodeShape(last.toks)
    /\ Len(last.toks) = 17 + Len(last.va) + 2
    /\ \A t \in {"{", "}", "compatible", "binding", "cells", "#"} :
         Occurrences(TemplateOf(last.toks), t) = 1
    /\ \A i \in 1..Len(last.toks) :
         last.toks[i] \in {"compatible", "cells"} => i < 18

C9_Witness ==
  /\ Expanded(MacroKinds) /\ last.ok
  /\ Len(last.va) > 0
  /\ last.toks[5] = "compatible" /\ last.toks[12] = "cells"
  /\ last.toks[18] = last.va[1] /\ last.toks[Len(last.toks) - 1] = "}"

\* C10: once the header is included, every MACRO_PLACEHOLDER token of the
\* input comes out as 0, in plain text and inside the name or the variadic
\* arguments of ZMK_MACRO, ZMK_MACRO1 and ZMK_MACRO2 alike.
C10_PlaceholderBecomesZero ==
  HeaderIncluded =>
    /\ \A i \in 1..Len(last.toks) : last.toks[i] # "MACRO_PLACEHOLDER"
    /\ Expanded({"text"}) =>
         \A i \in 1..Len(last.va) :
           last.va[i] = "MACRO_PLACEHOLDER" => last.toks[i] = "0"
    /\ Expanded(MacroKinds) =>
         /\ last.name = "MACRO_PLACEHOLDER" =>
              Label(last.toks) = "0" /\ NodeName(last.toks) = "0"
         /\ \A i \in 1..Len(last.va) :
              last.va[i] = "MACRO_PLACEHOLDER" => last.toks[17 + i] = "0"

C10_Witness ==
  /\ HeaderIncluded /\ Expanded(MacroKinds)
  /\ last.name = "MACRO_PLACEHOLDER" /\ Label(last.toks) = "0"
  /\ \E i \in 1..Len(last.va) :
       last.va[i] = "MACRO_PLACEHOLDER" /\ last.toks[17 + i] = "0"
====
